---- MODULE Spec2Model ----
(***************************************************************************)
(* GPU hash join of pg-strom (opencl_hashjoin.h): the execution kernel     *)
(* kern_gpuhashjoin_main and the two projection kernels as state machines  *)
(* over the work-items of one NDRange launch, the traversal of a hash      *)
(* chain, the layout of the kern_hashjoin request region, the group        *)
(* barrier taken work-item by work-item, and the reservation in 32-bit     *)
(* unsigned arithmetic.                                                    *)
(***************************************************************************)
EXTENDS Integers, Sequences, FiniteSets, Bags, TLC

(* ------------------------------ bounds --------------------------------- *)
NGroups == 2      \* work-groups of a launch
GroupSize == 2    \* work-items per work-group
MaxRows == 3      \* largest kds->nitems of the outer row set
MaxMatch == 2     \* most combinations the probe reports for one outer row
MaxRooms == 4     \* largest kresults->nrooms
MaxValids == 3    \* largest krowmap->nvalids
MapRows == 2      \* kds->nitems of the launches that pass a row map
MaxLaunch == 2    \* launches of the execution kernel on one batch
NTables == 1      \* kmhash->ntables

NWorkers == NGroups * GroupSize
Workers == 0 .. (NWorkers - 1)
Groups == 0 .. (NGroups - 1)

get_global_id(w) == w
get_local_id(w) == w % GroupSize
get_group_id(w) == w \div GroupSize
GroupOf(g) == {w \in Workers : get_group_id(w) = g}

(* --------------------------- error codes -------------------------------- *)
StromError_Success == "Success"
StromError_CpuReCheck == "CpuReCheck"
StromError_DataStoreCorruption == "DataStoreCorruption"
StromError_DataStoreNoSpace == "DataStoreNoSpace"

VARIABLES
    kmhash,     \* kern_multihash: [ntables]
    kds,        \* outer kern_data_store: [nitems, format]
    krowmap,    \* kern_row_map argument: [present, nvalids, rindex]
    join,       \* what the generated gpuhashjoin_execute finds: [nmatch, recheck]
    kresults,   \* kern_resultbuf header: [nrels, nrooms, nitems, errcode]
    results,    \* kresults->results[], as a function of the written indices
    written,    \* history: per work-item, the result indices it stored to
    probed,     \* history: <<work-item, outer row, mode>> of each probe call
    wk,         \* per work-item: pc and the __private variables
    base,       \* per work-group: the __local variable base
    launch,     \* number of the current launch of the execution kernel
    kds_dest,   \* destination kern_data_store: [format, nrooms, nitems, usage, length]
    dest_rows,  \* the tuples built in kds_dest, by row number
    colmap,     \* gpuhashjoin_projection_mapping: column -> <<depth, colidx>>
    srcnull,    \* the <<depth, colidx>> source columns that hold no value
    kernel,     \* the kernel of the launch: "main", "row" or "slot"
    atomics,    \* history: the atomic_add calls on kresults->nitems of a launch
    nitems_writers, \* history: the work-items that stored kds_dest->nitems
    khtable,    \* kern_hashtable of depth 1: [nslots, slot, entry]
    kds_hash,   \* hash value of the join key of each outer row
    walk,       \* a traversal of a hash chain: [pc, hash, kentry, visited]
    khashjoin,  \* the request region: [pc, length, nvalids] and its layout
    htup,       \* per depth: the source tuple the projection decodes
    p_colmeta,  \* per depth: kern_colmeta of the source columns
    slot_values, \* KERN_DATA_STORE_VALUES(kds_dest, row), by <<row, depth, column>>
    slot_isnull  \* KERN_DATA_STORE_ISNULL(kds_dest, row), by <<row, depth, column>>

vars == <<kmhash, kds, krowmap, join, kresults, results, written, probed,
          wk, base, launch, kds_dest, dest_rows, colmap, srcnull,
          kernel, atomics, nitems_writers, khtable, kds_hash, walk, khashjoin,
          htup, p_colmeta, slot_values, slot_isnull>>

projvars == <<kds_dest, dest_rows, colmap, srcnull>>

(* the hash table content and the outer keys, inputs of every kernel, and
   the chain traversal and the region layout, which are no part of a kernel
   step *)
tablevars == <<khtable, kds_hash, walk, khashjoin>>

(* the state of the slot projection and the history of the nitems stores *)
slotvars == <<kernel, nitems_writers, htup, p_colmeta, slot_values, slot_isnull>>

(* ------------------------------ helpers --------------------------------- *)
RECURSIVE SumOver(_, _)
SumOver(S, f) ==
    IF S = {} THEN 0
    ELSE LET x == CHOOSE y \in S : TRUE IN f[x] + SumOver(S \ {x}, f)

(* get_global_id(0) < krowmap->nvalids: size_t against cl_int, so nvalids is
   converted to the unsigned type and a negative nvalids exceeds every id *)
SizeLtInt(pos, n) == n < 0 \/ pos < n

(* (size_t) idx < kds->nitems: a negative cl_int index converts to a value
   above every cl_uint item count *)
IndexInRange(idx, nitems) == idx >= 0 /\ idx < nitems

(* lines 303-312: the outer row of a work-item *)
SelectRow(w) ==
    IF ~krowmap.present THEN get_global_id(w)
    ELSE IF SizeLtInt(get_global_id(w), krowmap.nvalids)
         THEN krowmap.rindex[get_global_id(w)]
         ELSE kds.nitems

(* STROM_SET_ERROR: record a code in the __private errcode if none is set *)
STROM_SET_ERROR(old, code) == IF old = StromError_Success THEN code ELSE old

(* ----------------------------- hash table ------------------------------- *)
MaxSlots == 3     \* largest khtable->nslots
MaxEntries == 3   \* most kern_hashentry records of a table
MaxHash == 5      \* largest hash value

(* the address KERN_HASHTABLE(kmhash, 1) of the table; NULL is address 0 *)
TableBase == 1000
NullEntry == 0

(* KERN_HASHENTRY_SIZE of the entries: header and a tuple of 24 bytes *)
EntrySize == 40

(* the kern_hashentry at address ptr *)
EntryAt(table, ptr) == table.entry[ptr - TableBase]

KERN_HASH_FIRST_ENTRY_NextSlot(table, hash) ==
    LET index == (hash + 1) % table.nslots
    IN  IF table.slot[index] = 0 THEN NullEntry
        ELSE TableBase + table.slot[index]

(* lines 139-149 *)
KERN_HASH_FIRST_ENTRY(table, hash) ==
    LET index == hash % table.nslots
    IN  IF table.slot[index] = 0 THEN NullEntry
        ELSE TableBase + table.slot[index]

KERN_HASH_NEXT_ENTRY_ChainHead(table, khentry) ==
    TableBase + table.slot[EntryAt(table, khentry).hash % table.nslots]

(* lines 151-159 *)
KERN_HASH_NEXT_ENTRY(table, khentry) ==
    IF EntryAt(table, khentry).next = 0 THEN NullEntry
    ELSE TableBase + EntryAt(table, khentry).next

(* the host building a table: entry k lies at offset EntrySize * k and is
   linked in front of the chain of its bucket *)
RECURSIVE InsertEntries(_, _, _)
InsertEntries(table, es, k) ==
    IF k > Len(es) THEN table
    ELSE LET off == EntrySize * k
             index == es[k].hash % table.nslots
         IN  InsertEntries(
                [nslots |-> table.nslots,
                 slot |-> [table.slot EXCEPT ![index] = off],
                 entry |-> [o \in (DOMAIN table.entry) \cup {off} |->
                              IF o = off
                              THEN [next |-> table.slot[index],
                                    hash |-> es[k].hash,
                                    rowid |-> es[k].rowid]
                              ELSE table.entry[o]]],
                es, k + 1)

BuildTable(nslots, es) ==
    InsertEntries([nslots |-> nslots, slot |-> [i \in 0 .. (nslots - 1) |-> 0],
                   entry |-> <<>>], es, 1)

(* the probe of gpuhashjoin_execute: the entries of the chain of a hash
   value, from KERN_HASH_FIRST_ENTRY on, that carry this hash value *)
RECURSIVE ProbeFrom(_, _, _)
ProbeFrom(table, khentry, hash) ==
    IF khentry = NullEntry THEN <<>>
    ELSE (IF EntryAt(table, khentry).hash = hash THEN <<khentry>> ELSE <<>>)
            \o ProbeFrom(table, KERN_HASH_NEXT_ENTRY(table, khentry), hash)

ProbeChain(table, hash) ==
    ProbeFrom(table, KERN_HASH_FIRST_ENTRY(table, hash), hash)

(* the byte offset of the entry of the k-th combination of an outer row:
   taken from the table where the launch models its content *)
MatchOffset(row, k) ==
    IF kds_hash = <<>> THEN 8 * k
    ELSE ProbeChain(khtable, kds_hash[row])[k] - TableBase

(* gpuhashjoin_execute(..., kds_index, rbuffer): the k-th combination found
   for an outer row: slot 0 is the row index + 1, slot d the entry offset *)
Combination(row, k, nrels) ==
    [d \in 0 .. (nrels - 1) |-> IF d = 0 THEN row + 1 ELSE MatchOffset(row, k)]

ExecuteCount(row) == join.nmatch[row]

ExecuteErrcode(errcode, row) ==
    IF row \in join.recheck
    THEN STROM_SET_ERROR(errcode, StromError_CpuReCheck)
    ELSE errcode

(* the stores of gpuhashjoin_execute with rbuffer = results + first *)
ExecuteStores(row, first, nrels) ==
    [i \in first .. (first + nrels * join.nmatch[row] - 1) |->
        Combination(row, ((i - first) \div nrels) + 1, nrels)[(i - first) % nrels]]

(* arithmetic_stairlike_add: exclusive prefix sum over the work-group *)
StairlikeOffset(w) ==
    SumOver({v \in GroupOf(get_group_id(w)) : get_local_id(v) < get_local_id(w)},
            [v \in Workers |-> wk[v].n_matches])

StairlikeTotal(g) == SumOver(GroupOf(g), [v \in Workers |-> wk[v].n_matches])

Store(mem, new) ==
    [i \in (DOMAIN mem) \cup (DOMAIN new) |->
        IF i \in DOMAIN new THEN new[i] ELSE mem[i]]

(* --------------------------- initial states ----------------------------- *)
FreshWorker ==
    [pc |-> "start", kds_index |-> 0, n_matches |-> 0, offset |-> 0,
     nitems |-> 0, errcode |-> StromError_Success]

NoRowMap == [present |-> FALSE, nvalids |-> 0, rindex |-> <<>>]

(* no slot projection has run: no source tuple is looked at, no slot stored *)
NoSlots ==
    /\ htup = <<>>
    /\ p_colmeta = <<>>
    /\ slot_values = <<>>
    /\ slot_isnull = <<>>

(* the launches whose probe results are given by join leave the content of
   the hash table open *)
(* no chain is being walked, and the layout of the region is not looked at *)
NoWalk ==
    /\ walk = [pc |-> "idle", hash |-> 0, kentry |-> NullEntry, visited |-> <<>>]
    /\ khashjoin = [pc |-> "given", length |-> 0, nvalids |-> 0]

NoTable ==
    /\ khtable = [nslots |-> 1, slot |-> [i \in {0} |-> 0], entry |-> <<>>]
    /\ kds_hash = <<>>
    /\ NoWalk

(* no projection kernel has been launched *)
NoProjection ==
    /\ kds_dest = [format |-> "ROW_FLAT", nrooms |-> 0, nitems |-> 0,
                   usage |-> 0, length |-> 0]
    /\ dest_rows = <<>>
    /\ colmap = <<>>
    /\ srcnull = {}
    /\ kernel = "main"
    /\ nitems_writers = <<>>
    /\ NoSlots

InitLaunch ==
    /\ NoProjection
    /\ atomics = <<>>
    /\ results = <<>>
    /\ written = [w \in Workers |-> {}]
    /\ probed = {}
    /\ wk = [w \in Workers |-> FreshWorker]
    /\ base = [g \in Groups |-> "unset"]
    /\ launch = 1

(* launches without a row map: any batch, any capacity, nrels right or wrong *)
InitNoRowMap ==
    /\ krowmap = NoRowMap
    /\ \E n \in 0 .. MaxRows :
          /\ n <= NWorkers
          /\ kds = [nitems |-> n, format |-> "ROW"]
          /\ \E m \in [0 .. (n - 1) -> 0 .. MaxMatch] :
             \E rc \in SUBSET (0 .. (n - 1)) :
                /\ Cardinality(rc) <= 1
                /\ join = [nmatch |-> m, recheck |-> rc]
    /\ \E nrels \in NTables .. (NTables + 1) :
       \E nrooms \in 0 .. MaxRooms :
          kresults = [nrels |-> nrels, nrooms |-> nrooms, nitems |-> 0,
                      errcode |-> StromError_Success]

(* launches with a row map of nvalids >= 0 entries of any content *)
InitRowMap ==
    /\ \E nv \in 0 .. MaxValids :
       \E ri \in [0 .. (nv - 1) -> (-1) .. MapRows] :
          krowmap = [present |-> TRUE, nvalids |-> nv, rindex |-> ri]
    /\ kds = [nitems |-> MapRows, format |-> "ROW"]
    /\ \E m \in [0 .. (MapRows - 1) -> 0 .. MaxMatch] :
          join = [nmatch |-> m, recheck |-> {}]
    /\ \E nrooms \in {MaxRooms - 2, MaxRooms} :
          kresults = [nrels |-> NTables + 1, nrooms |-> nrooms,
                      nitems |-> 0, errcode |-> StromError_Success]

Init ==
    /\ InitLaunch
    /\ NoTable
    /\ kmhash = [ntables |-> NTables]
    /\ (InitNoRowMap \/ InitRowMap)

(* launches with a row map whose header holds a negative nvalids: the region
   has no rindex entry (KERN_HASHJOIN_ROWMAP_LENGTH), so rindex[p] is whatever
   the memory behind the header holds *)
InitNegativeRowMap ==
    /\ \E ri \in [Workers -> (-1) .. MapRows] :
          krowmap = [present |-> TRUE, nvalids |-> -1, rindex |-> ri]
    /\ kds = [nitems |-> MapRows, format |-> "ROW"]
    /\ join = [nmatch |-> [r \in 0 .. (MapRows - 1) |-> MaxMatch], recheck |-> {}]
    /\ \E nrooms \in {MaxRooms - 2, MaxRooms} :
          kresults = [nrels |-> NTables + 1, nrooms |-> nrooms,
                      nitems |-> 0, errcode |-> StromError_Success]

InitAnyRowMap ==
    /\ InitLaunch
    /\ NoTable
    /\ kmhash = [ntables |-> NTables]
    /\ (InitRowMap \/ InitNegativeRowMap)

(* ------------------------ kern_gpuhashjoin_main ------------------------- *)
SanityFails_NoPlusOne == kresults.nrels # kmhash.ntables

(* line 297: the width of the result tuples against the number of tables *)
SanityFails == kresults.nrels # kmhash.ntables + 1

(* lines 294-328: sanity check, row selection, count phase *)
Count(w) ==
    /\ wk[w].pc = "start"
    /\ IF SanityFails
       THEN /\ wk' = [wk EXCEPT ![w].errcode = StromError_DataStoreCorruption,
                                ![w].pc = "out"]
            /\ UNCHANGED probed
       ELSE LET kds_index == SelectRow(w) IN
            IF IndexInRange(kds_index, kds.nitems)
            THEN /\ wk' = [wk EXCEPT
                       ![w].kds_index = kds_index,
                       ![w].n_matches = ExecuteCount(kds_index),
                       ![w].errcode = ExecuteErrcode(wk[w].errcode, kds_index),
                       ![w].pc = "counted"]
                 /\ probed' = probed \cup {<<w, kds_index, "count">>}
            ELSE /\ wk' = [wk EXCEPT ![w].kds_index = kds_index,
                                     ![w].n_matches = 0,
                                     ![w].pc = "counted"]
                 /\ UNCHANGED probed
    /\ UNCHANGED <<kmhash, kds, krowmap, join, kresults, results, written,
                   base, launch>>
    /\ UNCHANGED <<projvars, tablevars, slotvars, atomics>>

Designated_LastOfGroup(g) ==
    CHOOSE w \in GroupOf(g) : get_local_id(w) = GroupSize - 1

(* line 349: the work-item of a group that owns the atomic_add *)
Designated(g) == CHOOSE w \in GroupOf(g) : get_local_id(w) = 0

Reserve_Rollback(g) ==
    /\ \A w \in GroupOf(g) : wk[w].pc = "counted"
    /\ LET nitems == StairlikeTotal(g) IN
       /\ wk' = [w \in Workers |->
                    IF get_group_id(w) = g
                    THEN [wk[w] EXCEPT !.offset = StairlikeOffset(w),
                                       !.nitems = nitems,
                                       !.pc = "reserved"]
                    ELSE wk[w]]
       /\ IF nitems > 0
          THEN /\ base' = [base EXCEPT ![g] = kresults.nitems]
               /\ kresults' = [kresults EXCEPT !.nitems =
                                  IF kresults.nitems + nitems > kresults.nrooms
                                  THEN kresults.nitems
                                  ELSE kresults.nitems + nitems]
               /\ atomics' = Append(atomics, [by |-> Designated(g),
                                              add |-> nitems,
                                              old |-> kresults.nitems])
          ELSE /\ base' = [base EXCEPT ![g] = 0]
               /\ UNCHANGED <<kresults, atomics>>
    /\ UNCHANGED <<kmhash, kds, krowmap, join, results, written, probed, launch>>
    /\ UNCHANGED <<projvars, tablevars, slotvars>>

(* lines 334-356: prefix sum of the group, one atomic_add by local id 0,
   then the barrier that publishes base *)
Reserve(g) ==
    /\ \A w \in GroupOf(g) : wk[w].pc = "counted"
    /\ LET nitems == StairlikeTotal(g) IN
       /\ wk' = [w \in Workers |->
                    IF get_group_id(w) = g
                    THEN [wk[w] EXCEPT !.offset = StairlikeOffset(w),
                                       !.nitems = nitems,
                                       !.pc = "reserved"]
                    ELSE wk[w]]
       /\ IF nitems > 0
          THEN /\ base' = [base EXCEPT ![g] = kresults.nitems]
               /\ kresults' = [kresults EXCEPT !.nitems = kresults.nitems + nitems]
               /\ atomics' = Append(atomics, [by |-> Designated(g),
                                              add |-> nitems,
                                              old |-> kresults.nitems])
          ELSE /\ base' = [base EXCEPT ![g] = 0]
               /\ UNCHANGED <<kresults, atomics>>
    /\ UNCHANGED <<kmhash, kds, krowmap, join, results, written, probed, launch>>
    /\ UNCHANGED <<projvars, tablevars, slotvars>>

NoSpace_BaseOnly(w) == base[get_group_id(w)] > kresults.nrooms

NoSpace_GreaterEqual(w) ==
    base[get_group_id(w)] + wk[w].nitems >= kresults.nrooms

NoSpace_TotalOnly(w) == wk[w].nitems > kresults.nrooms

NoSpace_OwnRange(w) ==
    base[get_group_id(w)] + wk[w].offset + wk[w].n_matches > kresults.nrooms

(* line 363: the capacity check of a work-item *)
NoSpace(w) == base[get_group_id(w)] + wk[w].nitems > kresults.nrooms

DoesEmit_UnlessSignalled(w) ==
    /\ wk[w].n_matches > 0
    /\ IndexInRange(wk[w].kds_index, kds.nitems)
    /\ wk[w].errcode = StromError_Success

(* line 374: whether the work-item runs the probe in emit mode *)
DoesEmit(w) == wk[w].n_matches > 0 /\ IndexInRange(wk[w].kds_index, kds.nitems)

FirstSlot_NoOffset(w) == kresults.nrels * base[get_group_id(w)]

FirstSlot_OffsetUnscaled(w) ==
    kresults.nrels * base[get_group_id(w)] + wk[w].offset

(* line 377: index of the first result slot of a work-item *)
FirstSlot(w) == kresults.nrels * (base[get_group_id(w)] + wk[w].offset)

(* lines 358-385: capacity check and emit phase *)
Emit(w) ==
    /\ wk[w].pc = "reserved"
    /\ IF NoSpace(w)
       THEN /\ wk' = [wk EXCEPT ![w].errcode = StromError_DataStoreNoSpace,
                                ![w].pc = "out"]
            /\ UNCHANGED <<results, written, probed>>
       ELSE IF DoesEmit(w)
       THEN LET stores == ExecuteStores(wk[w].kds_index, FirstSlot(w),
                                        kresults.nrels) IN
            /\ results' = Store(results, stores)
            /\ written' = [written EXCEPT ![w] = @ \cup DOMAIN stores]
            /\ probed' = probed \cup {<<w, wk[w].kds_index, "emit">>}
            /\ wk' = [wk EXCEPT
                  ![w].n_matches = ExecuteCount(wk[w].kds_index),
                  ![w].errcode = ExecuteErrcode(wk[w].errcode, wk[w].kds_index),
                  ![w].pc = "out"]
       ELSE /\ wk' = [wk EXCEPT ![w].pc = "out"]
            /\ UNCHANGED <<results, written, probed>>
    /\ UNCHANGED <<kmhash, kds, krowmap, join, kresults, base, launch>>
    /\ UNCHANGED <<projvars, tablevars, slotvars, atomics>>

(* kern_writeback_error_status: atomic compare-and-set against Success *)
kern_writeback_error_status(shared, own) ==
    IF shared = StromError_Success THEN own ELSE shared

OutErrcode_DropRecheck(w) ==
    IF wk[w].errcode = StromError_CpuReCheck
    THEN StromError_Success
    ELSE wk[w].errcode

(* the code a work-item hands to the write-back at label out *)
OutErrcode(w) == wk[w].errcode

(* lines 386-388: status write-back *)
WriteBack(w) ==
    /\ wk[w].pc = "out"
    /\ kresults' = [kresults EXCEPT
          !.errcode = kern_writeback_error_status(kresults.errcode, OutErrcode(w))]
    /\ wk' = [wk EXCEPT ![w].pc = "done"]
    /\ UNCHANGED <<kmhash, kds, krowmap, join, results, written, probed,
                   base, launch>>
    /\ UNCHANGED <<projvars, tablevars, slotvars, atomics>>

KernelDone == \A w \in Workers : wk[w].pc = "done"

(* the host on DataStoreNoSpace: a larger result buffer, nitems and errcode
   re-initialised, and the execution kernel launched again *)
Retry ==
    /\ KernelDone
    /\ kresults.errcode = StromError_DataStoreNoSpace
    /\ launch < MaxLaunch
    /\ \E nrooms \in (kresults.nrooms + 1) .. MaxRooms :
          kresults' = [kresults EXCEPT !.nrooms = nrooms, !.nitems = 0,
                                       !.errcode = StromError_Success]
    /\ wk' = [w \in Workers |-> FreshWorker]
    /\ base' = [g \in Groups |-> "unset"]
    /\ written' = [w \in Workers |-> {}]
    /\ probed' = {}
    /\ launch' = launch + 1
    /\ atomics' = <<>>
    /\ UNCHANGED <<kmhash, kds, krowmap, join, results>>
    /\ UNCHANGED <<projvars, tablevars, slotvars>>

Next ==
    \/ \E w \in Workers : Count(w)
    \/ \E g \in Groups : Reserve(g)
    \/ \E w \in Workers : Emit(w)
    \/ \E w \in Workers : WriteBack(w)
    \/ Retry

Spec == Init /\ [][Next]_vars

(* the same kernel, launched with any row-map header *)
SpecAnyRowMap == InitAnyRowMap /\ [][Next]_vars

(* ------------- the same kernel, the barrier taken step by step ---------- *)
(* line 334: arithmetic_stairlike_add, a collective of the work-group: it
   returns once every work-item of the group has handed in its n_matches *)
PrefixSum(g) ==
    /\ \A w \in GroupOf(g) : wk[w].pc = "counted"
    /\ wk' = [w \in Workers |->
                 IF get_group_id(w) = g
                 THEN [wk[w] EXCEPT !.offset = StairlikeOffset(w),
                                    !.nitems = StairlikeTotal(g),
                                    !.pc = "summed"]
                 ELSE wk[w]]
    /\ UNCHANGED <<kmhash, kds, krowmap, join, kresults, results, written,
                   probed, base, launch>>
    /\ UNCHANGED <<projvars, tablevars, slotvars, atomics>>

(* lines 349-356: a work-item up to its arrival at the barrier; local id 0
   writes base on its way *)
Arrive(w) ==
    /\ wk[w].pc = "summed"
    /\ wk' = [wk EXCEPT ![w].pc = "barrier"]
    /\ IF w = Designated(get_group_id(w))
       THEN IF wk[w].nitems > 0
            THEN /\ base' = [base EXCEPT ![get_group_id(w)] = kresults.nitems]
                 /\ kresults' = [kresults EXCEPT
                                    !.nitems = kresults.nitems + wk[w].nitems]
                 /\ atomics' = Append(atomics, [by |-> w,
                                                add |-> wk[w].nitems,
                                                old |-> kresults.nitems])
            ELSE /\ base' = [base EXCEPT ![get_group_id(w)] = 0]
                 /\ UNCHANGED <<kresults, atomics>>
       ELSE UNCHANGED <<base, kresults, atomics>>
    /\ UNCHANGED <<kmhash, kds, krowmap, join, results, written, probed, launch>>
    /\ UNCHANGED <<projvars, tablevars, slotvars>>

(* line 356: barrier(CLK_LOCAL_MEM_FENCE) lets the work-items of a group go
   on once all of them have arrived *)
Release(g) ==
    /\ \A w \in GroupOf(g) : wk[w].pc = "barrier"
    /\ wk' = [w \in Workers |->
                 IF get_group_id(w) = g THEN [wk[w] EXCEPT !.pc = "reserved"]
                 ELSE wk[w]]
    /\ UNCHANGED <<kmhash, kds, krowmap, join, kresults, results, written,
                   probed, base, launch>>
    /\ UNCHANGED <<projvars, tablevars, slotvars, atomics>>

NextBarrier ==
    \/ \E w \in Workers : Count(w)
    \/ \E g \in Groups : PrefixSum(g)
    \/ \E w \in Workers : Arrive(w)
    \/ \E g \in Groups : Release(g)
    \/ \E w \in Workers : Emit(w)
    \/ \E w \in Workers : WriteBack(w)

(* one launch, every work-item scheduled on its own between the collectives *)
SpecBarrier == Init /\ [][NextBarrier]_vars

(* ------------- the same kernel, its counters at their width ------------- *)
(* cl_uint: 32 bits without sign, held as two halves of 16 bits *)
HalfWord == 65536

U32(hi, lo) == [hi |-> hi, lo |-> lo]

(* the cl_uint of a number below 2^16 *)
Small32(n) == U32(0, n)

(* a + b of two cl_uint: the sum modulo 2^32 *)
Add32(a, b) ==
    [hi |-> (a.hi + b.hi + ((a.lo + b.lo) \div HalfWord)) % HalfWord,
     lo |-> (a.lo + b.lo) % HalfWord]

(* a > b of two cl_uint *)
Gt32(a, b) == a.hi > b.hi \/ (a.hi = b.hi /\ a.lo > b.lo)

(* n * a of a small n and a cl_uint: the product modulo 2^32 *)
RECURSIVE Times32(_, _)
Times32(n, a) == IF n = 0 THEN Small32(0) ELSE Add32(a, Times32(n - 1, a))

(* line 363: base + nitems > kresults->nrooms, all three cl_uint *)
NoSpace32(w) ==
    Gt32(Add32(base[get_group_id(w)], wk[w].nitems), kresults.nrooms)

(* line 377: kresults->nrels * (base + offset) + i, the index of the i-th
   slot of a work-item *)
SlotIndex32(w, i) ==
    Add32(Times32(kresults.nrels, Add32(base[get_group_id(w)], wk[w].offset)),
          Small32(i))

(* the stores of gpuhashjoin_execute with rbuffer = results + SlotIndex32(w, 0) *)
ExecuteStores32(w) ==
    LET nrels == kresults.nrels
        count == nrels * join.nmatch[wk[w].kds_index]
        slot(i) == CHOOSE j \in 0 .. (count - 1) : SlotIndex32(w, j) = i
    IN  [i \in {SlotIndex32(w, j) : j \in 0 .. (count - 1)} |->
            Combination(wk[w].kds_index, (slot(i) \div nrels) + 1,
                        nrels)[slot(i) % nrels]]

(* lines 349-356: a work-item up to its arrival at the barrier *)
Arrive32(w) ==
    /\ wk[w].pc = "summed"
    /\ wk' = [wk EXCEPT ![w].pc = "barrier"]
    /\ IF w = Designated(get_group_id(w))
       THEN IF Gt32(wk[w].nitems, Small32(0))
            THEN /\ base' = [base EXCEPT ![get_group_id(w)] = kresults.nitems]
                 /\ kresults' = [kresults EXCEPT
                                    !.nitems = Add32(kresults.nitems, wk[w].nitems)]
                 /\ atomics' = Append(atomics, [by |-> w,
                                                add |-> wk[w].nitems,
                                                old |-> kresults.nitems])
            ELSE /\ base' = [base EXCEPT ![get_group_id(w)] = Small32(0)]
                 /\ UNCHANGED <<kresults, atomics>>
       ELSE UNCHANGED <<base, kresults, atomics>>
    /\ UNCHANGED <<kmhash, kds, krowmap, join, results, written, probed, launch>>
    /\ UNCHANGED <<projvars, tablevars, slotvars>>

(* lines 358-385: capacity check and emit phase *)
Emit32(w) ==
    /\ wk[w].pc = "reserved"
    /\ IF NoSpace32(w)
       THEN /\ wk' = [wk EXCEPT ![w].errcode = StromError_DataStoreNoSpace,
                                ![w].pc = "out"]
            /\ UNCHANGED <<results, written, probed>>
       ELSE IF DoesEmit(w)
       THEN /\ results' = Store(results, ExecuteStores32(w))
            /\ written' = [written EXCEPT ![w] = @ \cup DOMAIN ExecuteStores32(w)]
            /\ probed' = probed \cup {<<w, wk[w].kds_index, "emit">>}
            /\ wk' = [wk EXCEPT
                  ![w].n_matches = ExecuteCount(wk[w].kds_index),
                  ![w].errcode = ExecuteErrcode(wk[w].errcode, wk[w].kds_index),
                  ![w].pc = "out"]
       ELSE /\ wk' = [wk EXCEPT ![w].pc = "out"]
            /\ UNCHANGED <<results, written, probed>>
    /\ UNCHANGED <<kmhash, kds, krowmap, join, kresults, base, launch>>
    /\ UNCHANGED <<projvars, tablevars, slotvars, atomics>>

(* the values of kresults->nitems a group can find: the adds of the groups
   that reserved before it, few or close to 2^32 *)
Counters32 ==
    {Small32(0), Small32(HalfWord - 1), U32(HalfWord - 1, HalfWord - 3),
     U32(HalfWord - 1, HalfWord - 2), U32(HalfWord - 1, HalfWord - 1)}

Rooms32 ==
    {Small32(2), Small32(4), U32(1, 0), U32(HalfWord - 1, HalfWord - 1)}

(* the last groups of a launch behind their prefix sums: every work-item holds
   its count, its offset and the total of its group *)
Init32 ==
    /\ NoProjection
    /\ NoTable
    /\ atomics = <<>>
    /\ results = <<>>
    /\ written = [w \in Workers |-> {}]
    /\ base = [g \in Groups |-> "unset"]
    /\ launch = 1
    /\ kmhash = [ntables |-> NTables]
    /\ krowmap = NoRowMap
    /\ kds = [nitems |-> MaxRows, format |-> "ROW"]
    /\ \E m \in [0 .. (MaxRows - 1) -> 0 .. MaxMatch] :
          join = [nmatch |-> m, recheck |-> {}]
    /\ probed = {<<w, w, "count">> : w \in {v \in Workers : v < kds.nitems}}
    /\ \E nrooms \in Rooms32 :
       \E nitems \in Counters32 :
          kresults = [nrels |-> NTables + 1, nrooms |-> nrooms, nitems |-> nitems,
                      errcode |-> StromError_Success]
    /\ LET counted == [w \in Workers |->
                          IF w < kds.nitems THEN join.nmatch[w] ELSE 0]
       IN  wk = [w \in Workers |->
                   [pc |-> "summed",
                    kds_index |-> w,
                    n_matches |-> counted[w],
                    offset |-> Small32(SumOver(
                                 {v \in GroupOf(get_group_id(w)) :
                                     get_local_id(v) < get_local_id(w)}, counted)),
                    nitems |-> Small32(SumOver(GroupOf(get_group_id(w)), counted)),
                    errcode |-> StromError_Success]]

Next32 ==
    \/ \E w \in Workers : Arrive32(w)
    \/ \E g \in Groups : Release(g)
    \/ \E w \in Workers : Emit32(w)
    \/ \E w \in Workers : WriteBack(w)

Spec32 == Init32 /\ [][Next32]_vars

(* =================== kern_gpuhashjoin_projection_row ==================== *)
NCols == 2        \* kds_dest->ncols

DestCols == 0 .. (NCols - 1)
NULL == "NULL"

(* kern_get_datum / kern_get_datum_tuple: the value of a source column, by
   depth, column and row reference (outer row index or hash-entry offset) *)
kern_get_datum(depth, colidx, ref) ==
    IF <<depth, colidx>> \in srcnull THEN NULL ELSE <<depth, colidx, ref>>

(* line 453: rbuffer = kresults->results + nrels * get_global_id(0) *)
rbuffer(j, d) == results[kresults.nrels * j + d]

(* lines 479-497: the source datum of destination column i of row j *)
MappedDatum(j, i) ==
    LET depth == colmap[i][1]
        colidx == colmap[i][2]
    IN  IF depth = 0 THEN kern_get_datum(0, colidx, rbuffer(j, 0) - 1)
        ELSE IF depth < kresults.nrels
             THEN kern_get_datum(depth, colidx, rbuffer(j, depth))
             ELSE NULL

TYPEALIGN(a, len) == ((len + a - 1) \div a) * a
MAXALIGN(len) == TYPEALIGN(8, len)
bitmaplen(n) == (n + 7) \div 8

(* kds_dest->colmeta[i]: four-byte columns aligned to four bytes *)
DestColmeta(i) == [attlen |-> 4, attalign |-> 4]

(* lines 472-512: the data length of row j over columns 0 .. i-1 *)
RECURSIVE Datalen(_, _)
Datalen(j, i) ==
    IF i = 0 THEN 0
    ELSE IF MappedDatum(j, i - 1) = NULL THEN Datalen(j, i - 1)
    ELSE TYPEALIGN(DestColmeta(i - 1).attalign, Datalen(j, i - 1))
            + DestColmeta(i - 1).attlen

HasNull(j) == \E i \in DestCols : MappedDatum(j, i) = NULL

(* lines 513-518: t_hoff, with offsetof(HeapTupleHeaderData, t_bits) = 23 and
   no oid column *)
THoff(j) == MAXALIGN(23 + (IF HasNull(j) THEN bitmaplen(NCols) ELSE 0))

(* lines 466-522: the bytes row j needs in kds_dest *)
Required(j) ==
    IF j < kresults.nitems THEN THoff(j) + MAXALIGN(Datalen(j, NCols)) ELSE 0

(* lines 538-541: the fixed part of kds_dest in front of the tuples: the
   header with its column metadata, no block items, one row item per
   combination (kern_data_store header of 96 bytes, kern_rowitem of 8) *)
UsageHead == 96 + 8 * kresults.nitems

RowFormatsBad_DestOnly == kds_dest.format # "ROW_FLAT"

(* lines 432-435: the format check *)
RowFormatsBad ==
    \/ (kds.format # "ROW" /\ kds.format # "ROW_FLAT")
    \/ kds_dest.format # "ROW_FLAT"

ProjOverflow_ResultsOnly == kresults.nitems > kresults.nrooms

(* lines 446-447, 687-688: results overflowed or destination too small *)
ProjOverflow ==
    \/ kresults.nitems > kresults.nrooms
    \/ kresults.nitems > kds_dest.nrooms

UpdatesNitems_LocalId(w) == get_local_id(w) = 0

(* lines 459, 694: the work-item that stores kds_dest->nitems *)
UpdatesNitems(w) == get_global_id(w) = 0

(* lines 432-461: the kernel up to its unconditional goto out *)
ProjectionRow(w) ==
    /\ wk[w].pc = "start"
    /\ IF RowFormatsBad
       THEN /\ wk' = [wk EXCEPT
                  ![w].errcode = STROM_SET_ERROR(wk[w].errcode,
                                                 StromError_DataStoreCorruption),
                  ![w].pc = "out"]
            /\ UNCHANGED <<kds_dest, nitems_writers>>
       ELSE IF ProjOverflow
       THEN /\ wk' = [wk EXCEPT
                  ![w].errcode = STROM_SET_ERROR(wk[w].errcode,
                                                 StromError_DataStoreNoSpace),
                  ![w].pc = "out"]
            /\ UNCHANGED <<kds_dest, nitems_writers>>
       ELSE /\ wk' = [wk EXCEPT ![w].pc = "out"]
            /\ IF UpdatesNitems(w)
               THEN /\ kds_dest' = [kds_dest EXCEPT !.nitems = kresults.nitems]
                    /\ nitems_writers' = Append(nitems_writers, get_global_id(w))
               ELSE UNCHANGED <<kds_dest, nitems_writers>>
    /\ UNCHANGED <<kmhash, kds, krowmap, join, kresults, results, written,
                   probed, base, launch, dest_rows, colmap, srcnull>>
    /\ UNCHANGED <<tablevars, atomics, kernel, htup, p_colmeta, slot_values,
                   slot_isnull>>

(* a result buffer as the execution kernel leaves it: n combinations counted,
   the slots of the combinations that fit filled *)
JoinedResults(n, nrooms, nrels) ==
    [i \in 0 .. (nrels * (IF n > nrooms THEN 0 ELSE n) - 1) |->
        IF i % nrels = 0 THEN ((i \div nrels) % MaxRows) + 1
        ELSE 8 * ((i \div nrels) + 1)]

SourceColumns == {<<0, 0>>, <<1, 0>>}
DestLengths == {128, 1024}

InitProjection ==
    /\ kmhash = [ntables |-> NTables]
    /\ krowmap = NoRowMap
    /\ join = [nmatch |-> <<>>, recheck |-> {}]
    /\ written = [w \in Workers |-> {}]
    /\ probed = {}
    /\ wk = [w \in Workers |-> FreshWorker]
    /\ base = [g \in Groups |-> "unset"]
    /\ launch = 1
    /\ \E n \in 0 .. (MaxRooms + 1) :
          /\ (n <= NWorkers \/ n > MaxRooms)
          /\ kresults = [nrels |-> NTables + 1, nrooms |-> MaxRooms, nitems |-> n,
                         errcode |-> IF n > MaxRooms
                                     THEN StromError_DataStoreNoSpace
                                     ELSE StromError_Success]
          /\ results = JoinedResults(n, MaxRooms, NTables + 1)
    /\ dest_rows = <<>>
    /\ colmap \in [DestCols -> SourceColumns]
    /\ srcnull \in {{}, {<<1, 0>>}}
    /\ atomics = <<>>
    /\ nitems_writers = <<>>
    /\ NoTable

InitProjRow ==
    /\ InitProjection
    /\ kernel = "row"
    /\ NoSlots
    /\ \E f \in {"ROW", "ROW_FLAT", "TUPSLOT"} :
          kds = [nitems |-> MaxRows, format |-> f]
    /\ \E f \in {"ROW_FLAT", "TUPSLOT"} :
       \E nrooms \in {1, MaxRooms} :
       \E len \in DestLengths :
          kds_dest = [format |-> f, nrooms |-> nrooms, nitems |-> MaxRooms + 1,
                      usage |-> 0, length |-> len]

NextProjRow ==
    \/ \E w \in Workers : ProjectionRow(w)
    \/ \E w \in Workers : WriteBack(w)

SpecProjRow == InitProjRow /\ [][NextProjRow]_vars

(* =================== kern_gpuhashjoin_projection_slot =================== *)
SrcCols == 2      \* ncols of a source relation (kds->ncols, khtable->ncols)

Depths == 0 .. NTables
SrcColumns == 0 .. (SrcCols - 1)

(* kern_colmeta of a source column: attlen > 0 is a fixed length, attlen < 0 a
   varlena *)
ColMeta(len, align) == [attlen |-> len, attalign |-> align]

(* the bytes a source column holds: byte k of column i *)
DataByte(i, k) == 16 * (i + 1) + k + 1

(* a varlena datum: a header byte 2 * len + 1 and data when short (1B), a
   little-endian word 4 * len and data when not *)
VarlenaShort == 3
VarlenaLong == 8

VarlenaBytes(i, short) ==
    IF short
    THEN [k \in 0 .. (VarlenaShort - 1) |->
             IF k = 0 THEN 2 * VarlenaShort + 1 ELSE DataByte(i, k)]
    ELSE [k \in 0 .. (VarlenaLong - 1) |->
             IF k = 0 THEN 4 * VarlenaLong
             ELSE IF k < 4 THEN 0 ELSE DataByte(i, k)]

ColumnBytes(cmeta, i, short) ==
    IF cmeta.attlen > 0
    THEN [k \in 0 .. (cmeta.attlen - 1) |-> DataByte(i, k)]
    ELSE VarlenaBytes(i, short)

(* lines 612-655: where the layout of a heap tuple puts a datum that follows
   curr: fixed-length data at the next multiple of attalign, a varlena at curr
   when its header is short and at the next multiple of attalign otherwise *)
PlaceAt(cmeta, short, curr) ==
    IF cmeta.attlen > 0 \/ ~short
    THEN TYPEALIGN(cmeta.attalign, curr)
    ELSE curr

(* lines 580-657: the data area of a heap tuple of columns cm whose columns in
   nulls hold no value: the bytes by offset, zero where the layout pads, and
   the place of every stored column *)
RECURSIVE FillTuple(_, _, _, _, _, _)
FillTuple(cm, nulls, short, nattrs, i, acc) ==
    IF i >= nattrs THEN acc
    ELSE IF i \in nulls
    THEN FillTuple(cm, nulls, short, nattrs, i + 1, acc)
    ELSE LET at == PlaceAt(cm[i], short, acc.curr)
             data == ColumnBytes(cm[i], i, short)
             len == Cardinality(DOMAIN data)
         IN  FillTuple(cm, nulls, short, nattrs, i + 1,
                [curr |-> at + len,
                 bytes |-> [o \in (DOMAIN acc.bytes) \cup (acc.curr .. (at + len - 1)) |->
                              IF o \in DOMAIN acc.bytes THEN acc.bytes[o]
                              ELSE IF o < at THEN 0
                              ELSE data[o - at]],
                 attr |-> [c \in (DOMAIN acc.attr) \cup {i} |->
                              IF c = i THEN [off |-> at, len |-> len]
                              ELSE acc.attr[c]]])

(* a heap tuple: t_hoff of a header with at most eight columns and no oid,
   the attribute count of t_infomask2, HEAP_HASNULL of t_infomask, the null
   bitmap (a set bit marks a stored column) and the data area *)
HeapTuple(cm, nulls, short, nattrs) ==
    LET filled == FillTuple(cm, nulls, short, nattrs, 0,
                            [curr |-> 24, bytes |-> <<>>, attr |-> <<>>])
    IN  [t_hoff |-> 24,
         nattrs |-> nattrs,
         hasnull |-> \E i \in nulls : i < nattrs,
         t_bits |-> [i \in 0 .. (nattrs - 1) |-> i \notin nulls],
         bytes |-> filled.bytes,
         attr |-> filled.attr]

(* the byte at htup + offset; behind the data area lies the zeroed tail of the
   MAXALIGNed tuple slot *)
ByteAt(t, offset) == IF offset \in DOMAIN t.bytes THEN t.bytes[offset] ELSE 0

(* att_isnull(i, htup->t_bits) *)
att_isnull(i, t_bits) == ~t_bits[i]

VARATT_NOT_PAD_BYTE(b) == b # 0

(* VARSIZE_ANY: the length a varlena header encodes, 1B or 4B *)
VARSIZE_ANY(t, offset) ==
    LET b == ByteAt(t, offset) IN
    IF b % 2 = 1 THEN b \div 2
    ELSE (b \div 4) + 64 * ByteAt(t, offset + 1) + 16384 * ByteAt(t, offset + 2)
            + 4194304 * (ByteAt(t, offset + 3) % 64)

(* lines 789-794: the cursor moved to the datum of a stored column *)
DatumOffset(cmeta, t, offset) ==
    IF cmeta.attlen > 0 THEN TYPEALIGN(cmeta.attlen, offset)
    ELSE IF ~VARATT_NOT_PAD_BYTE(ByteAt(t, offset))
         THEN TYPEALIGN(cmeta.attalign, offset)
         ELSE offset

(* lines 795-797: the cursor behind the datum *)
NextOffset(cmeta, t, datum) ==
    datum + (IF cmeta.attlen > 0 THEN cmeta.attlen ELSE VARSIZE_ANY(t, datum))

(* the pointer datum: NULL, or htup + at *)
NullDatum == [null |-> TRUE, at |-> 0]
DatumAt(offset) == [null |-> FALSE, at |-> offset]

(* a depth without a tuple: htup is NULL *)
NoTuple == [none |-> TRUE]
IsNoTuple(t) == "none" \in DOMAIN t

(* lines 779-798: the datum pointer of every column of a tuple *)
RECURSIVE DecodeTuple(_, _, _, _, _)
DecodeTuple(t, cm, i, offset, acc) ==
    IF i >= SrcCols THEN acc
    ELSE IF i >= t.nattrs \/ (t.hasnull /\ att_isnull(i, t.t_bits))
    THEN DecodeTuple(t, cm, i + 1, offset, [acc EXCEPT ![i] = NullDatum])
    ELSE LET datum == DatumOffset(cm[i], t, offset)
         IN  DecodeTuple(t, cm, i + 1, NextOffset(cm[i], t, datum),
                         [acc EXCEPT ![i] = DatumAt(datum)])

(* lines 762-808: the datum pointers of the columns of depth d *)
SlotDatums(d) ==
    IF IsNoTuple(htup[d]) THEN [i \in SrcColumns |-> NullDatum]
    ELSE DecodeTuple(htup[d], p_colmeta[d], 0, htup[d].t_hoff,
                     [i \in SrcColumns |-> NullDatum])

SlotRef_FirstCombination(j, d) ==
    IF d = 0 THEN rbuffer(0, 0) - 1 ELSE rbuffer(0, d)

(* lines 734, 742, 753: the row a depth of combination j refers to: the
   outer row index, or the offset of the hash entry *)
SlotRef(j, d) == IF d = 0 THEN rbuffer(j, 0) - 1 ELSE rbuffer(j, d)

(* gpuhashjoin_projection_datum: what the store callback leaves in the value
   array: the bytes at datum for a type passed by value, the host address of
   the datum (the row and hostaddr + datum - baseaddr) otherwise *)
ByValue(cmeta) == cmeta.attlen \in {1, 2, 4, 8}

SlotValue(ref, t, cmeta, datum) ==
    IF datum.null THEN <<ref, NULL>>
    ELSE IF ByValue(cmeta)
    THEN <<ref, [k \in 0 .. (cmeta.attlen - 1) |-> ByteAt(t, datum.at + k)]>>
    ELSE <<ref, datum.at>>

(* the destination slots of row j, one per depth and source column *)
SlotKeys(j) == {<<j, d, i>> : d \in 0 .. (kresults.nrels - 1), i \in SrcColumns}

SlotValuesOf(j) ==
    [k \in SlotKeys(j) |->
        SlotValue(SlotRef(j, k[2]), htup[k[2]], p_colmeta[k[2]][k[3]],
                  SlotDatums(k[2])[k[3]])]

SlotIsnullOf(j) == [k \in SlotKeys(j) |-> SlotDatums(k[2])[k[3]].null]

(* lines 700-702: the format check *)
SlotFormatsBad ==
    \/ (kds.format # "ROW" /\ kds.format # "ROW_FLAT")
    \/ kds_dest.format # "TUPSLOT"

ProjectionSlot_ConsumesResults(w) ==
    /\ wk[w].pc = "start"
    /\ wk' = [wk EXCEPT ![w].pc = "out"]
    /\ results' = <<>>
    /\ UNCHANGED <<kmhash, kds, krowmap, join, kresults, written, probed, base,
                   launch, atomics, projvars, tablevars, slotvars>>

(* lines 687-813: the kernel of one work-item up to label out *)
ProjectionSlot(w) ==
    /\ wk[w].pc = "start"
    /\ IF ProjOverflow
       THEN /\ wk' = [wk EXCEPT
                  ![w].errcode = STROM_SET_ERROR(wk[w].errcode,
                                                 StromError_DataStoreNoSpace),
                  ![w].pc = "out"]
            /\ UNCHANGED <<kds_dest, nitems_writers, slot_values, slot_isnull>>
       ELSE /\ IF UpdatesNitems(w)
               THEN /\ kds_dest' = [kds_dest EXCEPT !.nitems = kresults.nitems]
                    /\ nitems_writers' = Append(nitems_writers, get_global_id(w))
               ELSE UNCHANGED <<kds_dest, nitems_writers>>
            /\ IF get_global_id(w) >= kresults.nitems
               THEN /\ wk' = [wk EXCEPT ![w].pc = "out"]
                    /\ UNCHANGED <<slot_values, slot_isnull>>
               ELSE IF SlotFormatsBad
               THEN /\ wk' = [wk EXCEPT
                          ![w].errcode =
                              STROM_SET_ERROR(wk[w].errcode,
                                              StromError_DataStoreCorruption),
                          ![w].pc = "out"]
                    /\ UNCHANGED <<slot_values, slot_isnull>>
               ELSE /\ slot_values' = Store(slot_values,
                                            SlotValuesOf(get_global_id(w)))
                    /\ slot_isnull' = Store(slot_isnull,
                                            SlotIsnullOf(get_global_id(w)))
                    /\ wk' = [wk EXCEPT ![w].pc = "out"]
    /\ UNCHANGED <<kmhash, kds, krowmap, join, kresults, results, written,
                   probed, base, launch, dest_rows, colmap, srcnull>>
    /\ UNCHANGED <<tablevars, atomics, kernel, htup, p_colmeta>>

(* the column types of the source relations: attlen and attalign *)
ColTypes ==
    {ColMeta(1, 1), ColMeta(2, 2), ColMeta(4, 4), ColMeta(8, 8), ColMeta(8, 4),
     ColMeta(16, 1), ColMeta(16, 8), ColMeta(-1, 4)}

(* the tuples of the inner relation: a four-byte column and a varlena *)
InnerColmeta == [i \in SrcColumns |-> IF i = 0 THEN ColMeta(4, 4) ELSE ColMeta(-1, 4)]

(* a slot projection over source relations of four-byte columns *)
PlainColmeta == [i \in SrcColumns |-> ColMeta(4, 4)]

InitSlotTuples(cm0, nulls, short, nattrs) ==
    /\ p_colmeta = [d \in Depths |-> IF d = 0 THEN cm0 ELSE InnerColmeta]
    /\ htup = [d \in Depths |->
                 IF d = 0 THEN HeapTuple(cm0, nulls, short, nattrs)
                 ELSE HeapTuple(InnerColmeta, {}, short, SrcCols)]
    /\ slot_values = <<>>
    /\ slot_isnull = <<>>

(* the launches of the slot projection on any result buffer, any formats and
   any destination capacity *)
InitSlotFormats ==
    /\ \E f \in {"ROW", "ROW_FLAT", "TUPSLOT"} :
          kds = [nitems |-> MaxRows, format |-> f]
    /\ \E f \in {"ROW_FLAT", "TUPSLOT"} :
       \E nrooms \in {1, MaxRooms} :
          kds_dest = [format |-> f, nrooms |-> nrooms, nitems |-> MaxRooms + 1,
                      usage |-> 0, length |-> 1024]
    /\ InitSlotTuples(PlainColmeta, {}, TRUE, SrcCols)

(* the launches of the slot projection that pass the checks, on outer tuples
   of any column types, null columns, attribute count and varlena headers *)
InitSlotShapes ==
    /\ kresults.nitems \in 1 .. 2
    /\ kds = [nitems |-> MaxRows, format |-> "ROW"]
    /\ kds_dest = [format |-> "TUPSLOT", nrooms |-> MaxRooms,
                   nitems |-> MaxRooms + 1, usage |-> 0, length |-> 1024]
    /\ \E cm0 \in [SrcColumns -> ColTypes] :
       \E nulls \in SUBSET SrcColumns :
       \E short \in BOOLEAN :
       \E nattrs \in 1 .. SrcCols :
          InitSlotTuples(cm0, nulls, short, nattrs)

(* the slot projection asks no column mapping *)
InitSlotLaunch ==
    /\ InitProjection
    /\ colmap = [c \in DestCols |-> <<0, 0>>]
    /\ srcnull = {}
    /\ kernel = "slot"

InitProjSlot == InitSlotLaunch /\ (InitSlotFormats \/ InitSlotShapes)

NextProjSlot ==
    \/ \E w \in Workers : ProjectionSlot(w)
    \/ \E w \in Workers : WriteBack(w)

SpecProjSlot == InitProjSlot /\ [][NextProjSlot]_vars

(* either projection kernel, launched on any result buffer *)
InitProj == InitProjRow \/ (InitSlotLaunch /\ InitSlotFormats)

NextProj ==
    \/ kernel = "row" /\ NextProjRow
    \/ kernel = "slot" /\ NextProjSlot

SpecProj == InitProj /\ [][NextProj]_vars

(* a launch of any of the three kernels *)
InitKernels == Init \/ InitProj

NextKernels ==
    \/ kernel = "main" /\ Next
    \/ NextProj

SpecKernels == InitKernels /\ [][NextKernels]_vars

(* ====================== hash chains and the probe ======================= *)
(* the execution kernel on a table of one entry and an outer row set of one
   row, the probe results being those of the table, the result buffer with
   room or without *)
InitScenario ==
    /\ InitLaunch
    /\ NoWalk
    /\ kmhash = [ntables |-> NTables]
    /\ krowmap = NoRowMap
    /\ kds = [nitems |-> 1, format |-> "ROW"]
    /\ \E nslots \in 2 .. MaxSlots :
       \E H \in 0 .. MaxHash :
          khtable = BuildTable(nslots, <<[hash |-> H, rowid |-> 7]>>)
    /\ \E h \in 0 .. MaxHash : kds_hash = [r \in {0} |-> h]
    /\ join = [nmatch |-> [r \in {0} |-> Len(ProbeChain(khtable, kds_hash[r]))],
               recheck |-> {}]
    /\ \E nrooms \in {0, MaxRooms} :
          kresults = [nrels |-> NTables + 1, nrooms |-> nrooms, nitems |-> 0,
                      errcode |-> StromError_Success]

SpecScenario == InitScenario /\ [][Next]_vars

(* a table of any width and entries, and a traversal not yet begun *)
InitWalk ==
    /\ InitLaunch
    /\ NoWalk
    /\ kmhash = [ntables |-> NTables]
    /\ krowmap = NoRowMap
    /\ kds = [nitems |-> 0, format |-> "ROW"]
    /\ kds_hash = <<>>
    /\ join = [nmatch |-> <<>>, recheck |-> {}]
    /\ kresults = [nrels |-> NTables + 1, nrooms |-> MaxRooms, nitems |-> 0,
                   errcode |-> StromError_Success]
    /\ \E nslots \in 1 .. MaxSlots :
       \E n \in 0 .. MaxEntries :
       \E hs \in [1 .. n -> 0 .. MaxHash] :
          khtable = BuildTable(nslots,
                               [k \in 1 .. n |-> [hash |-> hs[k], rowid |-> k - 1]])

(* lines 139-149: the traversal begins at the slot of a hash value *)
WalkFirst(hash) ==
    /\ walk.pc = "idle"
    /\ walk' = [pc |-> "walking", hash |-> hash,
                kentry |-> KERN_HASH_FIRST_ENTRY(khtable, hash),
                visited |-> <<>>]
    /\ UNCHANGED <<kmhash, kds, krowmap, join, kresults, results, written,
                   probed, wk, base, launch, khtable, kds_hash, khashjoin, atomics>>
    /\ UNCHANGED <<projvars, slotvars>>

(* lines 151-159: the traversal moves to the next entry of the chain *)
WalkNext ==
    /\ walk.pc = "walking"
    /\ walk.kentry # NullEntry
    /\ walk' = [walk EXCEPT
                   !.kentry = KERN_HASH_NEXT_ENTRY(khtable, walk.kentry),
                   !.visited = Append(@, walk.kentry)]
    /\ UNCHANGED <<kmhash, kds, krowmap, join, kresults, results, written,
                   probed, wk, base, launch, khtable, kds_hash, khashjoin, atomics>>
    /\ UNCHANGED <<projvars, slotvars>>

NextWalk ==
    \/ \E hash \in 0 .. MaxHash : WalkFirst(hash)
    \/ WalkNext

SpecWalk == InitWalk /\ [][NextWalk]_vars

(* ===================== layout of the kern_hashjoin region =============== *)
MaxLength == 40   \* largest kparams.length

(* the alignment quantum of STROMALIGN, and the offsets of the flexible
   arrays: offsetof(kern_resultbuf, results[0]), offsetof(kern_row_map,
   rindex[0]), and the size of an rindex element *)
STROMALIGN_LEN == 16
ResultbufHead == 20
RowmapHead == 4
RindexSize == 4

STROMALIGN(len) == TYPEALIGN(STROMALIGN_LEN, len)

(* line 216: kparams is the first member of kern_hashjoin *)
KERN_HASHJOIN_PARAMBUF(k) == 0

KERN_HASHJOIN_PARAMBUF_LENGTH_Unaligned(k) == k.length

(* line 218 *)
KERN_HASHJOIN_PARAMBUF_LENGTH(k) == STROMALIGN(k.length)

(* line 220 *)
KERN_HASHJOIN_RESULTBUF(k) ==
    KERN_HASHJOIN_PARAMBUF(k) + KERN_HASHJOIN_PARAMBUF_LENGTH(k)

(* line 224 *)
KERN_HASHJOIN_RESULTBUF_LENGTH(k) == STROMALIGN(ResultbufHead)

(* line 226 *)
KERN_HASHJOIN_ROWMAP(k) ==
    KERN_HASHJOIN_RESULTBUF(k) + KERN_HASHJOIN_RESULTBUF_LENGTH(k)

(* line 230: nvalids is read from the header at KERN_HASHJOIN_ROWMAP *)
KERN_HASHJOIN_ROWMAP_LENGTH(k) ==
    IF k.nvalids < 0
    THEN STROMALIGN(RowmapHead)
    ELSE STROMALIGN(RowmapHead + RindexSize * k.nvalids)

(* lines 237-246 *)
KERN_HASHJOIN_DMA_SENDOFS(k) == 0
KERN_HASHJOIN_DMA_SENDLEN(k) == KERN_HASHJOIN_ROWMAP(k) - KERN_HASHJOIN_PARAMBUF(k)
KERN_HASHJOIN_DMA_RECVOFS(k) == KERN_HASHJOIN_PARAMBUF_LENGTH(k)
KERN_HASHJOIN_DMA_RECVLEN(k) == KERN_HASHJOIN_RESULTBUF_LENGTH(k)

(* a request with a parameter block of any length and any row-map header *)
InitLayout ==
    /\ InitLaunch
    /\ walk = [pc |-> "idle", hash |-> 0, kentry |-> NullEntry, visited |-> <<>>]
    /\ khtable = [nslots |-> 1, slot |-> [i \in {0} |-> 0], entry |-> <<>>]
    /\ kds_hash = <<>>
    /\ kmhash = [ntables |-> NTables]
    /\ krowmap = NoRowMap
    /\ kds = [nitems |-> 0, format |-> "ROW"]
    /\ join = [nmatch |-> <<>>, recheck |-> {}]
    /\ kresults = [nrels |-> NTables + 1, nrooms |-> MaxRooms, nitems |-> 0,
                   errcode |-> StromError_Success]
    /\ \E len \in 0 .. MaxLength :
       \E nv \in (-1) .. MaxValids :
          khashjoin = [pc |-> "new", length |-> len, nvalids |-> nv]

(* the host placing the blocks of the region and the two DMA ranges *)
PlaceRegion ==
    /\ khashjoin.pc = "new"
    /\ khashjoin' =
          [pc |-> "placed", length |-> khashjoin.length,
           nvalids |-> khashjoin.nvalids,
           parambuf |-> KERN_HASHJOIN_PARAMBUF(khashjoin),
           resultbuf |-> KERN_HASHJOIN_RESULTBUF(khashjoin),
           rowmap |-> KERN_HASHJOIN_ROWMAP(khashjoin),
           rowmap_length |-> KERN_HASHJOIN_ROWMAP_LENGTH(khashjoin),
           sendofs |-> KERN_HASHJOIN_DMA_SENDOFS(khashjoin),
           sendlen |-> KERN_HASHJOIN_DMA_SENDLEN(khashjoin),
           recvofs |-> KERN_HASHJOIN_DMA_RECVOFS(khashjoin),
           recvlen |-> KERN_HASHJOIN_DMA_RECVLEN(khashjoin)]
    /\ UNCHANGED <<kmhash, kds, krowmap, join, kresults, results, written,
                   probed, wk, base, launch, khtable, kds_hash, walk, atomics>>
    /\ UNCHANGED <<projvars, slotvars>>

NextLayout == PlaceRegion

SpecLayout == InitLayout /\ [][NextLayout]_vars

(* ======================= claims on the execution kernel ================= *)
(* the row-selection rule of the design: position p selects rindex[p] while
   p < nvalids, the position itself without a row map *)
Positions == Workers

LiveRowOf(p) ==
    IF ~krowmap.present THEN p
    ELSE IF p < krowmap.nvalids THEN krowmap.rindex[p]
    ELSE -1

IsLive(p) == LiveRowOf(p) >= 0 /\ LiveRowOf(p) < kds.nitems

MatchesOf(p) == IF IsLive(p) THEN join.nmatch[LiveRowOf(p)] ELSE 0

TrueCount == SumOver(Positions, [p \in Positions |-> MatchesOf(p)])

(* the combinations of the batch, one per (position, match number) *)
TrueMatches == {pk \in Positions \X (1 .. MaxMatch) : pk[2] <= MatchesOf(pk[1])}

TrueTuple(pk) == Combination(LiveRowOf(pk[1]), pk[2], kresults.nrels)

SlotsFilled(n) ==
    \A i \in 0 .. (kresults.nrels * n - 1) : i \in DOMAIN results

ResultTuple(j) ==
    [d \in 0 .. (kresults.nrels - 1) |-> results[kresults.nrels * j + d]]

(* result slots [0, n) hold exactly the true combinations, each as often as
   it occurs among the (position, match) pairs *)
ExactResults(n) ==
    /\ SlotsFilled(n)
    /\ \A pk \in TrueMatches :
          Cardinality({j \in 0 .. (n - 1) : ResultTuple(j) = TrueTuple(pk)})
             = Cardinality({qk \in TrueMatches : TrueTuple(qk) = TrueTuple(pk)})
    /\ \A j \in 0 .. (n - 1) : \E pk \in TrueMatches : ResultTuple(j) = TrueTuple(pk)

SanityOk == kresults.nrels = kmhash.ntables + 1

AllWritten == UNION {written[w] : w \in Workers}

Reserved(w) == wk[w].pc \in {"reserved", "out", "done"} /\ SanityOk

OverCapacity(w) ==
    /\ Reserved(w)
    /\ base[get_group_id(w)] + wk[w].nitems > kresults.nrooms

(* C1: a launch with nrels = ntables + 1 and nrooms >= the true number of
   combinations ends, under every scheduling, with nitems equal to that number
   and with result slots [0, nitems) holding exactly the true combinations,
   none twice and none missing. *)
C1_ExactJoin ==
    (KernelDone /\ SanityOk /\ kresults.nrooms >= TrueCount)
       => /\ kresults.nitems = TrueCount
          /\ ExactResults(kresults.nitems)

(* two groups with matches, the second group reserving first, a work-item
   writing behind its group neighbour *)
C1_Witness ==
    /\ KernelDone /\ SanityOk /\ kresults.nrooms >= TrueCount
    /\ launch = 1
    /\ base[1] = 0 /\ base[0] > 0
    /\ \E w \in Workers : wk[w].offset > 0 /\ wk[w].n_matches > 1
    /\ kresults.nitems >= 3

(* C2: whenever the true number of combinations exceeds nrooms, the errcode
   of the result buffer at the end of the launch is DataStoreNoSpace. *)
C2_NoSpaceReported ==
    (KernelDone /\ SanityOk /\ TrueCount > kresults.nrooms)
       => kresults.errcode = StromError_DataStoreNoSpace

(* C3: every store to results[] lands below nrooms * nrels; a group over
   capacity stores nothing, an emitting work-item stores only inside the
   range its group reserved. *)
C3_WritesInBounds ==
    /\ \A i \in AllWritten : i >= 0 /\ i < kresults.nrooms * kresults.nrels
    /\ \A w \in Workers :
          /\ OverCapacity(w) => written[w] = {}
          /\ \A i \in written[w] :
                /\ i >= kresults.nrels * base[get_group_id(w)]
                /\ i < kresults.nrels * (base[get_group_id(w)] + wk[w].nitems)

(* the boundary: the true count is nrooms + 1, one group stored its
   combinations and the other was refused *)
C3_Witness ==
    /\ KernelDone /\ SanityOk
    /\ TrueCount = kresults.nrooms + 1
    /\ \E w \in Workers : written[w] # {}
    /\ \E w \in Workers : OverCapacity(w) /\ wk[w].n_matches > 0

(* C4: with nrels # ntables + 1 the kernel reports DataStoreCorruption, never
   calls the probe, leaves nitems alone and stores no result slot. *)
C4_Corruption ==
    ~SanityOk =>
       /\ probed = {}
       /\ kresults.nitems = 0
       /\ AllWritten = {} /\ results = <<>>
       /\ \A w \in Workers :
             wk[w].pc \in {"out", "done"}
                => wk[w].errcode = StromError_DataStoreCorruption
       /\ (\E w \in Workers : wk[w].pc = "done")
             => kresults.errcode = StromError_DataStoreCorruption

C4_Witness ==
    /\ ~SanityOk /\ KernelDone
    /\ kds.nitems > 0 /\ \E r \in DOMAIN join.nmatch : join.nmatch[r] > 0
    /\ kresults.errcode = StromError_DataStoreCorruption

ProbedRows(w) == {t[2] : t \in {u \in probed : u[1] = w}}

(* C5: a work-item at a position >= nvalids (row map present) or >= the outer
   nitems (no row map) counts zero matches, probes nothing and stores nothing,
   whatever the row map holds; a position p < nvalids with rindex[p] < nitems
   probes exactly outer row rindex[p]. *)
C5_RowSelection ==
    \A w \in Workers :
       (wk[w].pc # "start" /\ SanityOk) =>
          IF IsLive(w)
          THEN ProbedRows(w) = {LiveRowOf(w)}
          ELSE wk[w].n_matches = 0 /\ ProbedRows(w) = {} /\ written[w] = {}

(* C6: after a launch that ended in DataStoreNoSpace, the relaunch on the same
   tables and outer rows with nitems and errcode re-initialised and
   nrooms >= the true count leaves exactly the combinations a single launch
   with enough room leaves (C1), in some order, and does not report no-space
   again. *)
C6_RetrySameSet ==
    (launch > 1 /\ KernelDone /\ kresults.nrooms >= TrueCount)
       => /\ kresults.nitems = TrueCount
          /\ ExactResults(TrueCount)
          /\ kresults.errcode # StromError_DataStoreNoSpace
          /\ AllWritten = 0 .. (kresults.nrels * TrueCount - 1)

(* a relaunch over the slots the refused launch had partly filled *)
C6_Witness ==
    /\ launch > 1 /\ KernelDone /\ kresults.nrooms >= TrueCount
    /\ TrueCount >= 3
    /\ base[1] = 0 /\ base[0] > 0
    /\ kresults.errcode = StromError_Success

Signalled(w) == wk[w].errcode # StromError_Success

(* C7: within a launch the shared errcode only changes from Success to a
   non-success code and a recorded code is never replaced; at the end it is
   Success iff no work-item signalled an error. *)
C7_FirstErrorWins ==
    /\ [][(kresults.errcode # StromError_Success /\ launch' = launch)
             => kresults'.errcode = kresults.errcode]_vars
    /\ [](KernelDone =>
             (kresults.errcode = StromError_Success
                 <=> \A w \in Workers : ~Signalled(w)))
    /\ [](kresults.errcode # StromError_Success
             => \E w \in Workers :
                   wk[w].pc = "done" /\ wk[w].errcode = kresults.errcode)

(* two different codes were signalled and the one written first stayed *)
C7_Witness ==
    /\ KernelDone
    /\ kresults.errcode = StromError_CpuReCheck
    /\ \E w \in Workers : wk[w].errcode = StromError_DataStoreNoSpace

RecheckRaised == \E p \in Positions : IsLive(p) /\ LiveRowOf(p) \in join.recheck

(* C8 as stated: a CpuReCheck raised while probing a row never becomes the
   shared errcode of the result buffer. *)
C8_NotFolded == kresults.errcode # StromError_CpuReCheck

(* C8 as amended: a CpuReCheck raised while probing one outer row aborts
   nothing, every combination of the batch (the signalling row's too) is
   counted and emitted as without the signal, and the signal is handed to the
   status write-back: a launch with enough room in which a row raised it ends
   with errcode CpuReCheck. *)
C8_RecheckKeepsRows ==
    (KernelDone /\ SanityOk /\ RecheckRaised /\ kresults.nrooms >= TrueCount)
       => /\ kresults.nitems = TrueCount
          /\ ExactResults(TrueCount)
          /\ kresults.errcode = StromError_CpuReCheck

C8_Witness ==
    /\ KernelDone /\ SanityOk /\ kresults.nrooms >= TrueCount
    /\ \E p \in Positions :
          /\ IsLive(p) /\ LiveRowOf(p) \in join.recheck /\ MatchesOf(p) > 0
          /\ written[p] # {}
    /\ \E p \in Positions :
          /\ IsLive(p) /\ LiveRowOf(p) \notin join.recheck /\ written[p] # {}
    /\ kresults.errcode = StromError_CpuReCheck

(* ======================= claims on the row projection =================== *)
TotalRequired ==
    SumOver(0 .. (kresults.nitems - 1),
            [j \in 0 .. (kresults.nitems - 1) |-> Required(j)])

DestFits == UsageHead + TotalRequired <= kds_dest.length

RowProjectionRuns == ~RowFormatsBad /\ ~ProjOverflow

TupleRange(j) ==
    dest_rows[j].htup_offset .. (dest_rows[j].htup_offset + dest_rows[j].t_len - 1)

(* C9: after the row projection ran on a successful result buffer with a
   destination of sufficient size, the tuple of every row j < nitems holds,
   for every destination column c, the value of the source column the mapping
   names for c, and the null-bitmap bit of c is set iff that value is absent. *)
C9_RowRoundTrip ==
    (KernelDone /\ RowProjectionRuns /\ DestFits) =>
       \A j \in 0 .. (kresults.nitems - 1) :
          /\ j \in DOMAIN dest_rows
          /\ \A c \in DestCols :
                /\ dest_rows[j].t_bits[c] <=> (MappedDatum(j, c) = NULL)
                /\ MappedDatum(j, c) # NULL
                      => dest_rows[j].values[c] = MappedDatum(j, c)

(* C10: the row projection advances kds_dest->usage by the summed required
   lengths of the rows j < nitems, gives distinct rows disjoint byte ranges,
   and on a destination that is too short reports DataStoreNoSpace and builds
   no tuple. *)
C10_SpaceReserved ==
    (KernelDone /\ RowProjectionRuns) =>
       IF DestFits
       THEN /\ kds_dest.usage = TotalRequired
            /\ \A j \in 0 .. (kresults.nitems - 1) : j \in DOMAIN dest_rows
            /\ \A j, k \in DOMAIN dest_rows :
                  j # k => TupleRange(j) \cap TupleRange(k) = {}
       ELSE /\ kresults.errcode = StromError_DataStoreNoSpace
            /\ dest_rows = <<>>

(* ===================== claims on the projection kernels ================= *)
Overflowed ==
    \/ kresults.nitems > kresults.nrooms
    \/ kresults.nitems > kds_dest.nrooms

RowOriented(f) == f \in {"ROW", "ROW_FLAT"}

(* the formats a projection kernel requires of its stores *)
FormatsWrong ==
    \/ ~RowOriented(kds.format)
    \/ kernel = "row" /\ kds_dest.format # "ROW_FLAT"
    \/ kernel = "slot" /\ kds_dest.format # "TUPSLOT"

Left(w) == wk[w].pc \in {"out", "done"}

(* nothing of the destination store has been written *)
DestUntouched ==
    /\ nitems_writers = <<>>
    /\ kds_dest.usage = 0
    /\ dest_rows = <<>>
    /\ slot_values = <<>> /\ slot_isnull = <<>>

DestFrame == UNCHANGED <<kds_dest, dest_rows, slot_values, slot_isnull>>

(* C11 as stated: in both projection kernels, a result buffer whose nitems
   exceeds its nrooms or the nrooms of the destination makes every work-item
   signal DataStoreNoSpace, and nothing of the destination is written. *)
C11_NoSpaceNoWrite ==
    Overflowed =>
       /\ \A w \in Workers :
             Left(w) => wk[w].errcode = StromError_DataStoreNoSpace
       /\ DestUntouched

(* C11 as amended: on such a result buffer no step of either kernel writes
   the destination; every work-item of the slot projection signals
   DataStoreNoSpace, and every work-item of the row projection signals
   DataStoreNoSpace when the formats are the required ones and
   DataStoreCorruption when they are not, the format check coming first. *)
C11_OverflowRefused ==
    /\ [](Overflowed =>
             /\ \A w \in Workers :
                   Left(w) =>
                      wk[w].errcode =
                         IF kernel = "row" /\ FormatsWrong
                         THEN StromError_DataStoreCorruption
                         ELSE StromError_DataStoreNoSpace
             /\ DestUntouched)
    /\ [][Overflowed => DestFrame]_vars

(* the slot projection refused a result buffer that fits itself but not the
   destination, the formats being wrong as well *)
C11_Witness ==
    /\ KernelDone /\ kernel = "slot" /\ FormatsWrong
    /\ kresults.nitems <= kresults.nrooms
    /\ kresults.nitems > kds_dest.nrooms
    /\ \A w \in Workers : wk[w].errcode = StromError_DataStoreNoSpace
    /\ kresults.errcode = StromError_DataStoreNoSpace

(* C12: the row projection on a source that is neither ROW nor ROW_FLAT, or
   on a destination that is not ROW_FLAT, signals DataStoreCorruption in every
   work-item and writes nothing of the destination, its nitems included,
   whatever nitems the result buffer holds. *)
C12_RowFormatChecked ==
    /\ []((kernel = "row" /\ FormatsWrong) =>
             /\ \A w \in Workers :
                   Left(w) => wk[w].errcode = StromError_DataStoreCorruption
             /\ DestUntouched
             /\ kds_dest.nitems = MaxRooms + 1)
    /\ [][(kernel = "row" /\ FormatsWrong) => DestFrame]_vars

(* a source in slot format with a good destination, no combination to
   project *)
C12_Witness ==
    /\ KernelDone /\ kernel = "row"
    /\ kds.format = "TUPSLOT" /\ kds_dest.format = "ROW_FLAT"
    /\ kresults.nitems = 0
    /\ kresults.errcode = StromError_DataStoreCorruption

(* C13: the slot projection on a source that is not row-oriented, or on a
   destination that is not TUPSLOT, signals DataStoreCorruption in every
   work-item, with nitems = 0 too, and leaves the nitems of the destination
   as it was. *)
C13_SlotFormatChecked ==
    (kernel = "slot" /\ FormatsWrong /\ ~Overflowed) =>
       /\ \A w \in Workers :
             Left(w) => wk[w].errcode = StromError_DataStoreCorruption
       /\ nitems_writers = <<>>

(* the launch passes the checks of its kernel *)
ChecksPass == ~Overflowed /\ ~FormatsWrong

(* C14: in a projection launch that passes the checks, kds_dest->nitems is
   stored once, by the work-item of global id 0 and by no other, and when the
   kernel is over it equals the nitems of the result buffer, in whatever order
   the work-items ran. *)
C14_NitemsOnce ==
    ChecksPass =>
       /\ Len(nitems_writers) <= 1
       /\ \A k \in DOMAIN nitems_writers : nitems_writers[k] = 0
       /\ (nitems_writers # <<>>) <=> (wk[0].pc # "start")
       /\ KernelDone => kds_dest.nitems = kresults.nitems

(* the work-item of global id 0 ran last *)
C14_Witness ==
    /\ ChecksPass /\ kernel = "slot"
    /\ kresults.nitems = 2
    /\ \A w \in Workers \ {0} : wk[w].pc = "done"
    /\ wk[0].pc = "out"
    /\ nitems_writers = <<0>>
    /\ kds_dest.nitems = 2

(* the source column i of the tuple of depth d holds no value *)
SourceAbsent(d, i) == i >= htup[d].nattrs \/ ~htup[d].t_bits[i]

(* the value of source column i of the row ref of depth d, as the store
   callback is to see it: the bytes of the column for a type passed by value,
   the place of the datum otherwise *)
SourceValue(ref, d, i) ==
    IF ByValue(p_colmeta[d][i])
    THEN <<ref, [k \in 0 .. (p_colmeta[d][i].attlen - 1) |-> DataByte(i, k)]>>
    ELSE <<ref, htup[d].attr[i].off>>

(* C15: for every row j < nitems, every depth and every source column the
   store callback of the slot projection gets null iff the column is beyond
   the attribute count of the tuple or marked null in its bitmap, and otherwise
   the datum of that column, whatever the fixed lengths and alignments of the
   columns are. *)
C15_DecodedValues ==
    \A k \in DOMAIN slot_values :
       /\ slot_isnull[k] <=> SourceAbsent(k[2], k[3])
       /\ ~SourceAbsent(k[2], k[3])
             => slot_values[k] = SourceValue(SlotRef(k[1], k[2]), k[2], k[3])

(* =================== claims on the hash table and probe ================= *)
(* the entry of the one-entry table *)
OnlyEntry == khtable.entry[EntrySize]

OuterMatches == kds_hash[0] = OnlyEntry.hash

OuterElsewhere == kds_hash[0] % khtable.nslots # OnlyEntry.hash % khtable.nslots

(* the result buffer holds one combination of these two slots *)
OneCombination(first, second) ==
    /\ kresults.nitems = 1
    /\ DOMAIN results = {0, 1}
    /\ results[0] = first /\ results[1] = second

NoCombination == kresults.nitems = 0 /\ results = <<>> /\ AllWritten = {}

(* C16 as stated: a table of one entry of hash H and row id 7 and one outer
   row of hash H give nitems = 1 and the slots [8, offset of the entry], 8
   being the row id of the entry + 1; an outer row whose hash selects another
   bucket gives nitems = 0 and no stored slot. *)
C16_EntryRowid ==
    (KernelDone /\ kresults.nrooms >= 1) =>
       /\ OuterMatches => OneCombination(OnlyEntry.rowid + 1, EntrySize)
       /\ OuterElsewhere => NoCombination

(* C16 as amended: the matching outer row gives nitems = 1 and the slots
   [1, offset of the entry]: slot 0 is the index of the outer row + 1, the
   one outer row having index 0, and the row id 7 of the entry is stored
   nowhere; an outer row whose hash selects another bucket gives nitems = 0
   and no stored slot. *)
C16_OuterIndex ==
    (KernelDone /\ kresults.nrooms >= 1) =>
       /\ OuterMatches => OneCombination(0 + 1, EntrySize)
       /\ OuterElsewhere => NoCombination

C16_Witness ==
    /\ KernelDone /\ OuterMatches
    /\ OnlyEntry.rowid = 7
    /\ kresults.nitems = 1 /\ results[0] = 1 /\ results[1] = EntrySize
    /\ kresults.errcode = StromError_Success

NumEntries == Cardinality(DOMAIN khtable.entry)

WalkBucket == walk.hash % khtable.nslots

(* the entries the traversal has returned so far *)
Returned ==
    IF walk.kentry = NullEntry THEN walk.visited
    ELSE Append(walk.visited, walk.kentry)

(* C18: a traversal from KERN_HASH_FIRST_ENTRY(table, h) by
   KERN_HASH_NEXT_ENTRY returns only entries of bucket h % N, none of them
   twice, returns NULL exactly when the slot, or the next offset of the entry
   before, is 0, and returns at most as many entries as the table holds before
   it returns NULL. *)
C18_ChainWalk ==
    walk.pc = "walking" =>
       /\ \A k \in DOMAIN Returned :
             /\ (Returned[k] - TableBase) \in DOMAIN khtable.entry
             /\ khtable.entry[Returned[k] - TableBase].hash % khtable.nslots
                   = WalkBucket
             /\ \A m \in DOMAIN Returned : m # k => Returned[m] # Returned[k]
       /\ (walk.kentry = NullEntry) <=>
             IF walk.visited = <<>>
             THEN khtable.slot[WalkBucket] = 0
             ELSE khtable.entry[walk.visited[Len(walk.visited)] - TableBase].next = 0
       /\ Len(Returned) <= NumEntries

(* a table of several slots whose entries all lie in one chain, walked to
   its end *)
C18_Witness ==
    /\ walk.pc = "walking" /\ walk.kentry = NullEntry
    /\ khtable.nslots > 1
    /\ Len(walk.visited) = MaxEntries

(* ===================== claims on the region layout ====================== *)
(* n is the least multiple of the alignment quantum that is >= len *)
AlignedUp(n, len) ==
    /\ n % STROMALIGN_LEN = 0
    /\ n >= len /\ n - len < STROMALIGN_LEN

(* C17: for every length of the parameter block and every nvalids, the result
   block starts at the length rounded up to the quantum, the row map at the
   result start plus the rounded fixed size of the result block, the three
   starts are multiples of the quantum, the blocks do not overlap, the send
   range is [0, row-map start), the receive range is the fixed part of the
   result block, inside the send range and ending where the row map starts,
   and the row map is as long as its header when nvalids < 0 and as header
   and nvalids indices otherwise. *)
C17_RegionLayout ==
    khashjoin.pc = "placed" =>
       /\ AlignedUp(khashjoin.resultbuf, khashjoin.length)
       /\ AlignedUp(khashjoin.rowmap - khashjoin.resultbuf, ResultbufHead)
       /\ khashjoin.parambuf % STROMALIGN_LEN = 0
       /\ khashjoin.resultbuf % STROMALIGN_LEN = 0
       /\ khashjoin.rowmap % STROMALIGN_LEN = 0
       /\ khashjoin.parambuf + khashjoin.length <= khashjoin.resultbuf
       /\ khashjoin.resultbuf + ResultbufHead <= khashjoin.rowmap
       /\ khashjoin.sendofs = 0
       /\ khashjoin.sendofs + khashjoin.sendlen = khashjoin.rowmap
       /\ khashjoin.recvofs = khashjoin.resultbuf
       /\ khashjoin.recvofs >= khashjoin.sendofs
       /\ khashjoin.recvofs + khashjoin.recvlen = khashjoin.rowmap
       /\ AlignedUp(khashjoin.rowmap_length,
                    RowmapHead + (IF khashjoin.nvalids < 0 THEN 0
                                  ELSE RindexSize * khashjoin.nvalids))

(* a parameter block whose length is no multiple of the quantum, and a row
   map with indices *)
C17_Witness ==
    /\ khashjoin.pc = "placed"
    /\ khashjoin.length % STROMALIGN_LEN # 0
    /\ khashjoin.length > STROMALIGN_LEN
    /\ khashjoin.nvalids = MaxValids
    /\ khashjoin.resultbuf > khashjoin.length

(* ======================== claims on all kernels ========================= *)
(* the multihash table, the outer row set and the row map *)
KernelInputs == <<kmhash, khtable, join, kds, kds_hash, krowmap>>

(* C19: no step of the execution kernel or of a projection kernel changes
   the multihash table, the outer row set or the row map; a step of the
   execution kernel changes, of the result buffer and the destination, only
   nitems, errcode and result slots; a step of a projection kernel changes
   only the destination store and the errcode of the result buffer. *)
C19_Frame ==
    [][launch' = launch =>
          /\ UNCHANGED KernelInputs
          /\ kresults'.nrels = kresults.nrels
          /\ kresults'.nrooms = kresults.nrooms
          /\ kernel = "main" =>
                UNCHANGED <<kds_dest, dest_rows, slot_values, slot_isnull>>
          /\ kernel \in {"row", "slot"} =>
                /\ results' = results
                /\ kresults'.nitems = kresults.nitems]_vars

(* a slot projection that stored rows and wrote its status back *)
C19_Witness ==
    /\ kernel = "slot" /\ KernelDone
    /\ kresults.nitems = 2 /\ results # <<>>
    /\ kds_dest.nitems = 2
    /\ <<1, 1, 1>> \in DOMAIN slot_values

(* ===================== claims on the group aggregation ================== *)
GroupTrue(g) == SumOver(GroupOf(g), [p \in Workers |-> MatchesOf(p)])

PrefixTrue(w) ==
    SumOver({v \in GroupOf(get_group_id(w)) : get_local_id(v) < get_local_id(w)},
            [p \in Workers |-> MatchesOf(p)])

AddsOf(g) == {k \in DOMAIN atomics : get_group_id(atomics[k].by) = g}

GroupReserved(g) == \A w \in GroupOf(g) : Reserved(w)

AddedTotal ==
    SumOver(DOMAIN atomics, [k \in DOMAIN atomics |-> atomics[k].add])

(* what holds of the atomic adds whether or not a group has matches: they
   are issued by local id 0 and add the total of the group, the work-items
   get the exclusive prefix sums as offsets, and the counter holds what the
   adds of the launch put there *)
AggregationRules ==
    /\ \A k \in DOMAIN atomics :
          /\ get_local_id(atomics[k].by) = 0
          /\ atomics[k].add = GroupTrue(get_group_id(atomics[k].by))
    /\ \A g \in Groups : ~GroupReserved(g) => AddsOf(g) = {}
    /\ \A w \in Workers : Reserved(w) => wk[w].offset = PrefixTrue(w)
    /\ kresults.nitems = AddedTotal

(* C20 as stated: in a launch that passes the sanity check every group does
   exactly one atomic add on nitems, by its work-item of local id 0 and of the
   total of the group; the offset of a work-item is the sum of the matches of
   the work-items before it in the group; no other work-item touches the
   counter. *)
C20_OneAddPerGroup ==
    SanityOk =>
       /\ AggregationRules
       /\ \A g \in Groups : GroupReserved(g) => Cardinality(AddsOf(g)) = 1

(* C20 as amended: a group whose total is positive does exactly one atomic
   add, a group without matches does none and takes base 0; the rest as
   stated. *)
C20_AddWhenMatches ==
    SanityOk =>
       /\ AggregationRules
       /\ \A g \in Groups :
             GroupReserved(g) =>
                /\ Cardinality(AddsOf(g)) = (IF GroupTrue(g) > 0 THEN 1 ELSE 0)
                /\ GroupTrue(g) = 0 => base[g] = 0

(* one group with matches in both of its work-items, reserving after the
   other group, and one group without *)
C20_Witness ==
    /\ SanityOk /\ KernelDone /\ launch = 1
    /\ Len(atomics) = 1
    /\ \E g \in Groups : GroupTrue(g) = 0
    /\ \E w \in Workers : wk[w].offset > 0 /\ MatchesOf(w) > 0
    /\ kresults.nitems = TrueCount

(* ======================== claims on the nitems counter ================== *)
(* the counter as the atomic adds of the launch left it: the first add found
   the value of the launch, every add found what the add before it left *)
CounterChain ==
    \A k \in DOMAIN atomics :
       atomics[k].old = (IF k = 1 THEN 0
                         ELSE atomics[k - 1].old + atomics[k - 1].add)

SomeRefused == \E w \in Workers : OverCapacity(w)

(* C21: within a launch no step lowers kresults->nitems, and a group that is
   refused for lack of room leaves its add in place: after a launch that
   passes the sanity check nitems is its value at the launch (0) plus the
   matches counted by all work-items of all groups, refused or not; so
   nitems exceeds nrooms only when, and at the end whenever, the true count
   exceeds nrooms. *)
C21_NoRollback ==
    /\ [][launch' = launch => kresults'.nitems >= kresults.nitems]_vars
    /\ [](SanityOk => CounterChain /\ kresults.nitems = AddedTotal)
    /\ []((KernelDone /\ SanityOk) => kresults.nitems = TrueCount)
    /\ []((SanityOk /\ kresults.nitems > kresults.nrooms)
             => TrueCount > kresults.nrooms)
    /\ []((KernelDone /\ SanityOk /\ TrueCount > kresults.nrooms)
             => kresults.nitems > kresults.nrooms)

(* both groups added, the one that reserved first stored its combinations,
   the other was refused, and the counter stands above nrooms *)
C21_Witness ==
    /\ KernelDone /\ SanityOk /\ launch = 1
    /\ Len(atomics) = 2
    /\ SomeRefused
    /\ AllWritten # {}
    /\ kresults.nitems = TrueCount
    /\ kresults.nitems > kresults.nrooms

(* ========================= claims on the emit phase ===================== *)
(* the slots [nrels * (base + offset), nrels * (base + offset + n_matches))
   of a work-item past the barrier *)
OwnRange(w) ==
    {i \in 0 .. (kresults.nrels * (kresults.nitems + 1)) :
        /\ i >= kresults.nrels * (base[get_group_id(w)] + wk[w].offset)
        /\ i < kresults.nrels
                 * (base[get_group_id(w)] + wk[w].offset + wk[w].n_matches)}

PastEmit(w) == Reserved(w) /\ wk[w].pc \in {"out", "done"}

(* C22: under every interleaving the slots stored by two different
   work-items, of one group or of two, are disjoint; a work-item of a group
   with room stores exactly the slots
   [nrels * (base + offset), nrels * (base + offset + n_matches)); and no
   store of a launch hits a slot the launch has stored before. *)
C22_RaceFree ==
    /\ [](SanityOk =>
             /\ \A w, v \in Workers :
                   w # v => written[w] \cap written[v] = {}
             /\ \A w \in Workers :
                   /\ written[w] # {} => PastEmit(w)
                   /\ (PastEmit(w) /\ ~OverCapacity(w))
                         => written[w] = OwnRange(w))
    /\ [][launch' = launch =>
             \A w \in Workers :
                written'[w] # written[w]
                   => /\ written[w] = {}
                      /\ written'[w] \cap AllWritten = {}]_vars

(* both work-items of a group stored behind each other, and a work-item of
   the other group stored as well, the groups in either order *)
C22_Witness ==
    /\ KernelDone /\ SanityOk /\ launch = 1
    /\ \E w, v \in Workers :
          /\ w # v /\ get_group_id(w) = get_group_id(v)
          /\ base[get_group_id(w)] > 0
          /\ Cardinality(written[w]) = kresults.nrels * MaxMatch
          /\ written[v] # {}
    /\ \E u \in Workers : base[get_group_id(u)] = 0 /\ written[u] # {}

(* ========================== claims on the barrier ======================= *)
(* how far a work-item has come in the kernel *)
Stage(w) ==
    CASE wk[w].pc = "start" -> 0
      [] wk[w].pc = "counted" -> 1
      [] wk[w].pc = "summed" -> 2
      [] wk[w].pc = "barrier" -> 3
      [] wk[w].pc = "reserved" -> 4
      [] wk[w].pc = "out" -> 5
      [] wk[w].pc = "done" -> 6

StageNext(w) ==
    CASE wk'[w].pc = "start" -> 0
      [] wk'[w].pc = "counted" -> 1
      [] wk'[w].pc = "summed" -> 2
      [] wk'[w].pc = "barrier" -> 3
      [] wk'[w].pc = "reserved" -> 4
      [] wk'[w].pc = "out" -> 5
      [] wk'[w].pc = "done" -> 6

(* the work-item left through the sanity check of line 297 *)
TookSanityExit(w) ==
    /\ wk[w].pc \in {"out", "done"}
    /\ wk[w].errcode = StromError_DataStoreCorruption

(* the work-item left through the capacity check of line 363 *)
TookNoSpaceExit(w) ==
    /\ wk[w].pc \in {"out", "done"}
    /\ wk[w].errcode = StromError_DataStoreNoSpace

OnWayToBarrier(w) == wk[w].pc \in {"counted", "summed", "barrier"}

PastBarrier(w) ==
    \/ wk[w].pc = "reserved"
    \/ wk[w].pc \in {"out", "done"} /\ ~TookSanityExit(w)

BaseWritten(g) ==
    wk[Designated(g)].pc \in {"barrier", "reserved", "out", "done"}
        /\ ~TookSanityExit(Designated(g))

(* C23: the sanity check and the capacity check come out the same for all
   work-items of a group, so all or none of them arrive at the barrier; a
   work-item reads base only after local id 0 has written it; a work-item
   passes the status write-back once and stays done; and a launch never
   hangs: while a work-item is not done some step can be taken, and every
   step moves a work-item forward. *)
C23_BarrierConverges ==
    /\ [](\A g \in Groups : \A w, v \in GroupOf(g) :
             /\ (wk[w].pc # "start" /\ wk[v].pc # "start")
                   => (TookSanityExit(w) <=> ~(OnWayToBarrier(v) \/ PastBarrier(v)))
             /\ (wk[w].pc \in {"out", "done"} /\ wk[v].pc \in {"out", "done"})
                   => (TookNoSpaceExit(w) <=> TookNoSpaceExit(v))
             /\ PastBarrier(w) => (PastBarrier(v) /\ BaseWritten(g)))
    /\ [][/\ \A w \in Workers : StageNext(w) >= Stage(w)
          /\ \E w \in Workers : StageNext(w) > Stage(w)
          /\ \A w \in Workers :
                (Stage(w) < 6 /\ StageNext(w) = 6) => Stage(w) = 5]_vars
    /\ [](~KernelDone => ENABLED <<NextBarrier>>_vars)

(* a group was refused as a whole, a work-item without matches with it, after
   the other group had reserved and stored *)
C23_Witness ==
    /\ KernelDone /\ SanityOk
    /\ \E g \in Groups :
          /\ \A w \in GroupOf(g) : TookNoSpaceExit(w)
          /\ \E w \in GroupOf(g) : wk[w].n_matches = 0
          /\ base[g] > 0
    /\ AllWritten # {}

(* ==================== claims on the order of reservations =============== *)
(* the group of the k-th atomic add of the launch *)
GroupAt(k) == get_group_id(atomics[k].by)

(* the work-items of the k-th reserving group that are past the capacity
   check, and what they found there *)
Checked(k) == {w \in GroupOf(GroupAt(k)) : wk[w].pc \in {"out", "done"}}

Refused(k) ==
    \E w \in Checked(k) : wk[w].errcode = StromError_DataStoreNoSpace

Admitted(k) ==
    \E w \in Checked(k) : wk[w].errcode # StromError_DataStoreNoSpace

(* the end of the range of the reserving groups that were admitted *)
AdmittedEnd ==
    IF \E k \in DOMAIN atomics : Admitted(k)
    THEN LET last == CHOOSE k \in DOMAIN atomics :
                        /\ Admitted(k)
                        /\ \A l \in DOMAIN atomics : Admitted(l) => l <= k
         IN  atomics[last].old + atomics[last].add
    ELSE 0

(* C24: in the order of the atomic adds of a launch that began with
   nitems = 0, a group with matches that reserves after a refused group with
   matches is refused too; so the groups that store form a prefix of that
   order, and at the end of the launch the stored combinations fill the
   slots of [0, B) without a gap, B being the end of the last admitted
   reservation. *)
C24_PrefixEmits ==
    SanityOk =>
       /\ \A k, l \in DOMAIN atomics :
             (k < l /\ Refused(k)) => ~Admitted(l)
       /\ \A k \in DOMAIN atomics :
             Admitted(k) =>
                \A l \in 1 .. k : atomics[l].old + atomics[l].add <= kresults.nrooms
       /\ AllWritten \subseteq 0 .. (kresults.nrels * AdmittedEnd - 1)
       /\ KernelDone => AllWritten = 0 .. (kresults.nrels * AdmittedEnd - 1)

(* the group that reserved first was refused, and the group behind it, whose
   matches alone would have fitted, was refused as well *)
C24_Witness ==
    /\ KernelDone /\ SanityOk /\ launch = 1
    /\ Len(atomics) = 2
    /\ Refused(1) /\ Refused(2)
    /\ atomics[2].add <= kresults.nrooms
    /\ AllWritten = {}

(* ================== claims on the width of the counters ================= *)
(* base + nitems as numbers, not modulo 2^32, exceeds nrooms *)
SumExceeds(b, n, nrooms) ==
    \/ (b.hi + n.hi + ((b.lo + n.lo) \div HalfWord)) >= HalfWord
    \/ Gt32(Add32(b, n), nrooms)

(* n * a as a number: the multiples of 2^32 it holds and the rest *)
RECURSIVE WideTimes(_, _)
WideTimes(n, a) ==
    IF n = 0 THEN [over |-> 0, low |-> Small32(0)]
    ELSE LET t == WideTimes(n - 1, a)
             carry == (t.low.hi + a.hi + ((t.low.lo + a.lo) \div HalfWord))
                         \div HalfWord
         IN  [over |-> t.over + carry, low |-> Add32(t.low, a)]

(* slot index i lies in results[0 .. nrels * nrooms - 1] *)
InResults(i) ==
    LET end == WideTimes(kresults.nrels, kresults.nrooms)
    IN  end.over > 0 \/ Gt32(end.low, i)

Admitted32(w) ==
    /\ wk[w].pc \in {"out", "done"}
    /\ wk[w].errcode # StromError_DataStoreNoSpace

(* C25: whatever 32-bit values the counter, the total of the group and nrooms
   hold, wrapped sums included, a work-item goes on to the emit phase only if
   base + nitems as numbers is at most nrooms, and it stores to no slot
   outside the results array. *)
C25_NoWrapEscape ==
    \A w \in Workers :
       /\ Admitted32(w)
             => ~SumExceeds(base[get_group_id(w)], wk[w].nitems, kresults.nrooms)
       /\ \A i \in written[w] : InResults(i)

(* ============ claims on the footprint of the slot projection ============ *)
RowsStored == {k[1] : k \in DOMAIN slot_values}

(* the work-items that take a step *)
Stepping == {w \in Workers : wk'[w] # wk[w]}

(* C26: the work-item at position j < nitems stores only the value and null
   slots of destination row j, each once, and what it stores stems from
   combination j of the result buffer; a work-item at a position >= nitems
   stores to no row; so under every interleaving the rows are stored without
   overlap and row j belongs to combination j. *)
C26_SlotFootprint ==
    /\ [](/\ DOMAIN slot_isnull = DOMAIN slot_values
          /\ \A k \in DOMAIN slot_values :
                /\ k[1] < kresults.nitems
                /\ wk[k[1]].pc \in {"out", "done"}
                /\ slot_values[k][1] =
                      (IF k[2] = 0 THEN results[kresults.nrels * k[1]] - 1
                       ELSE results[kresults.nrels * k[1] + k[2]])
          /\ \A j \in RowsStored : SlotKeys(j) \subseteq DOMAIN slot_values)
    /\ [][\A w \in Stepping :
             /\ \A k \in DOMAIN slot_values :
                   /\ k \in DOMAIN slot_values'
                   /\ slot_values'[k] = slot_values[k]
                   /\ slot_isnull'[k] = slot_isnull[k]
             /\ (DOMAIN slot_values') \ (DOMAIN slot_values)
                   \subseteq SlotKeys(get_global_id(w))
             /\ get_global_id(w) >= kresults.nitems
                   => (slot_values' = slot_values /\ slot_isnull' = slot_isnull)
          ]_vars

(* two combinations, the rows 0 and 1 stored by the work-items 0 and 1 in
   either order, the work-items behind them storing nothing *)
C26_Witness ==
    /\ kernel = "slot" /\ KernelDone
    /\ kresults.nitems = 2
    /\ RowsStored = {0, 1}
    /\ slot_values[<<1, 1, 0>>][1] = results[kresults.nrels + 1]
    /\ slot_values[<<1, 1, 0>>][1] # slot_values[<<0, 1, 0>>][1]
    /\ kresults.errcode = StromError_Success

====
